---- MODULE Spec2Model ----
(***************************************************************************)
(* A model of nmap_scan.py: one run of main().  Strings the program        *)
(* inspects (the three answers typed by the user) are sequences of         *)
(* one-character strings; formatted messages are sequences of their        *)
(* parts.  The name resolver and the nmap engine are the environment:      *)
(* each call picks one of the outcomes the library can produce.            *)
(***************************************************************************)
EXTENDS Integers, Sequences, FiniteSets, TLC

\* ------------------------------------------------------------------ bounds
MaxChoiceLen == 2       \* longest answer typed at the scan menu
MaxAnswerLen == 3       \* longest answer typed at the save prompt
MaxPort      == 2       \* ports reported by a scan are 1..MaxPort
RetryCap     == 2       \* retry policies 0..RetryCap considered for the retry claim

\* ------------------------------------------------------ environment inputs
\* What the user may type at the target prompt (before .strip()).
TargetInputs ==
  { <<>>, <<" ">>, <<"a">>, <<" ", "a", " ">>, <<"a", ".", ".", "b", " ">> }

ChoiceChars == {" ", "1", "2", "3", "4", "5", "6"}
AnswerChars == {" ", "y", "Y", "e", "E", "s", "S", "n"}

StringsUpTo(A, n) == UNION { [1..k -> A] : k \in 0..n }

ChoiceInputs == StringsUpTo(ChoiceChars, MaxChoiceLen)
AnswerInputs == StringsUpTo(AnswerChars, MaxAnswerLen)

\* The hosts a scan may report, in the sorted order all_hosts() returns them,
\* and the protocols, in the sorted order all_protocols() returns them.
HostOrder     == <<"10.0.0.1", "10.0.0.2">>
ProtocolOrder == <<"tcp", "udp">>

\* ------------------------------------------------------------ str methods
Whitespace == {" "}

RECURSIVE lstrip(_)
lstrip(s) ==
  IF s # <<>> /\ Head(s) \in Whitespace THEN lstrip(Tail(s)) ELSE s

RECURSIVE rstrip(_)
rstrip(s) ==
  IF s # <<>> /\ s[Len(s)] \in Whitespace
    THEN rstrip(SubSeq(s, 1, Len(s) - 1))
    ELSE s

\* str.strip()
strip(s) == rstrip(lstrip(s))

LowerChar(c) ==
  CASE c = "Y" -> "y"
    [] c = "E" -> "e"
    [] c = "S" -> "s"
    [] OTHER   -> c

\* str.lower()
lower(s) == [i \in 1..Len(s) |-> LowerChar(s[i])]

\* termcolor.colored(text, color): one coloured segment of a terminal line.
colored(text, color) == [text |-> text, color |-> color]

\* An uncoloured segment.
plain(text) == [text |-> text, color |-> "none"]

\* datetime.now(), formatted: the clock is not modelled.
Now == "<now>"

\* ------------------------------------------------------ the scan engine
Hosts       == { HostOrder[i] : i \in 1..Len(HostOrder) }
Protocols   == { ProtocolOrder[i] : i \in 1..Len(ProtocolOrder) }
PortNumbers == 1..MaxPort

\* nm[host]: for each protocol the host answered on, the ports found.
HostResults == UNION { [P -> SUBSET PortNumbers] : P \in SUBSET Protocols }

\* The dictionary a finished nm.scan() leaves in the scanner object.
ScanResults == UNION { [H -> HostResults] : H \in SUBSET Hosts }

\* nmap.PortScanner() runs the nmap binary to read its version and raises
\* PortScannerError when the binary is missing or not recognised.
ConstructOutcomes == {"ok", "PortScannerError"}

\* nm.scan() returns, raises PortScannerError, or raises something else.
ScanOutcomes == {"ok", "PortScannerError", "Exception"}

\* socket.gethostbyname(): an address, socket.error (gaierror), or an error
\* that is not a socket.error (UnicodeError from the idna encoding of a host
\* name with an empty or over-long label).
ResolveOutcomes == {"resolved", "socket.error", "UnicodeError"}

None == [kind |-> "None"]

PortScanner(result) == [kind |-> "PortScanner", scan |-> result]

\* nm.all_hosts(): the hosts of the result, sorted.
all_hosts(scanner) == SelectSeq(HostOrder, LAMBDA h : h \in DOMAIN scanner.scan)

\* nm[host].all_protocols(): the protocols of the host, sorted.
all_protocols(hostResult) ==
  SelectSeq(ProtocolOrder, LAMBDA p : p \in DOMAIN hostResult)

\* nm[host][protocol].items(): the ports in the order the engine listed them
\* (ascending).
RECURSIVE items(_)
items(ports) ==
  IF ports = {} THEN <<>>
  ELSE LET m == CHOOSE x \in ports : \A y \in ports : x <= y
       IN  <<m>> \o items(ports \ {m})

\* nm[host].hostname() and nm[host].state(); the port entry printed as state.
hostname(host) == ""
state(host) == "up"
port_state(port) == "open"

\* ---------------------------------------------------------------- state
VARIABLES
  pc,            \* where main() is
  answer,        \* what input() has just returned, not yet used
  target,        \* main's local: the stripped target
  options,       \* main's local: the option string scan_menu returned
  save_to_file,  \* main's local: the save flag
  nm,            \* main's local: what run_nmap_scan returned
  result_lines,  \* display_scan_results' local list
  log,           \* records appended to nmap_scan.log by this run
  terminal,      \* lines printed, prompts included
  files,         \* results files written by this run
  trace,         \* calls made so far, with their outcome
  exit_status    \* the interpreter's exit status, -1 while running

vars == << pc, answer, target, options, save_to_file, nm, result_lines,
           log, terminal, files, trace, exit_status >>

Running == -1

Init ==
  /\ pc = "main"
  /\ answer = <<>>
  /\ target = <<>>
  /\ options = ""
  /\ save_to_file = FALSE
  /\ nm = None
  /\ result_lines = <<>>
  /\ log = <<>>
  /\ terminal = <<>>
  /\ files = <<>>
  /\ trace = <<>>
  /\ exit_status = Running

\* print(...): one more terminal line, a sequence of segments.
print(out, line) == Append(out, line)

\* One entry of the call history: the call, its arguments and how it ended.
Event(op, t, o, result) == [op |-> op, target |-> t, options |-> o, result |-> result]

\* logging.info / logging.error
logging(level, message) == [level |-> level, message |-> message]

\* ------------------------------------------------------------- main, 95-98
\* The welcome line, the prompt, and input() returning what the user typed.
InputTarget ==
  /\ pc = "main"
  /\ \E typed \in TargetInputs : answer' = typed
  /\ terminal' =
       print(print(terminal,
                   <<colored(<<"\nWelcome to the Nmap Scanner Tool!">>, "cyan")>>),
             <<colored(<<"\nEnter target IP address or domain: ">>, "yellow")>>)
  /\ trace' = Append(trace, Event("input", target, options, "target"))
  /\ pc' = "validate"
  /\ UNCHANGED << target, options, save_to_file, nm, result_lines, log, files,
                  exit_status >>

\* ------------------- main, 98 (.strip()) to 102, with validate_target, 11-19
\* What validate_target does once gethostbyname ended with `r`: "True" or
\* "False" returned, or "raise" when the error is not caught by
\* "except socket.error" and leaves validate_target.
Verdict(r) ==
  CASE r = "resolved"     -> "True"
    [] r = "socket.error" -> "False"
    [] OTHER              -> "raise"

\* validate_target logging the target whether or not it resolved.
ValidationLog_Always(r, t) == << logging("ERROR", <<"Invalid target: ">> \o t) >>

\* The records validate_target logs (line 17).
ValidationLog(r, t) ==
  IF r = "socket.error"
    THEN << logging("ERROR", <<"Invalid target: ">> \o t) >>
    ELSE << >>

\* The lines validate_target prints (line 18).
ValidationLines(r, t) ==
  IF r = "socket.error"
    THEN << <<colored(<<"Invalid target: ">> \o t
                        \o <<". Please enter a valid IP or domain.">>, "red")>> >>
    ELSE << >>

\* main() going on to the menu after a rejected target (the return of line
\* 102 missing).
AfterVerdict_Continues(verdict) ==
  IF verdict = "raise" THEN "raised" ELSE "scan_menu"

\* main() with the test of line 101 inverted.
AfterVerdict_Inverted(verdict) ==
  CASE verdict = "True"  -> "returned"
    [] verdict = "False" -> "scan_menu"
    [] OTHER             -> "raised"

\* Where main() is after validate_target ended with `verdict` (lines 101-102);
\* an exception leaves main() too.
AfterVerdict(verdict) ==
  CASE verdict = "True"  -> "scan_menu"
    [] verdict = "False" -> "returned"
    [] OTHER             -> "raised"

ValidateTarget ==
  /\ pc = "validate"
  /\ target' = strip(answer)
  /\ answer' = <<>>
  /\ \E r \in ResolveOutcomes :
       /\ log' = log \o ValidationLog(r, target')
       /\ terminal' = terminal \o ValidationLines(r, target')
       /\ trace' = trace \o << Event("gethostbyname", target', options, r),
                               Event("validate_target", target', options, Verdict(r)) >>
       /\ pc' = AfterVerdict(Verdict(r))
  /\ UNCHANGED << options, save_to_file, nm, result_lines, files, exit_status >>

\* ------------------------------------------- main, 104-105, scan_menu, 73-92
MenuLines ==
  << <<plain(<<"\nSelect a scan option:">>)>>,
     <<plain(<<"1. Regular scan (-sP) [Ping Scan]">>)>>,
     <<plain(<<"2. Service version detection (-sV)">>)>>,
     <<plain(<<"3. OS detection (-O)">>)>>,
     <<plain(<<"4. Full scan (-sS)">>)>>,
     <<plain(<<"5. Default scan (-sV -sC) [Recommended]">>)>>,
     <<plain(<<"\nEnter the number corresponding to your choice: ">>)>> >>

scan_options ==
  ( <<"1">> :> "-sP" ) @@ ( <<"2">> :> "-sV" ) @@ ( <<"3">> :> "-O" ) @@
  ( <<"4">> :> "-sS" ) @@ ( <<"5">> :> "-sV -sC" )

\* scan_menu without the .strip() of line 82.
scan_menu_unstripped(typed) ==
  IF typed \in DOMAIN scan_options THEN scan_options[typed] ELSE "-sV -sC"

\* What scan_menu returns when input() returned `typed`.
scan_menu(typed) ==
  LET choice == strip(typed)
  IN  IF choice \in DOMAIN scan_options THEN scan_options[choice] ELSE "-sV -sC"

\* lines 75-82: the menu, the prompt, and input() returning
InputChoice ==
  /\ pc = "scan_menu"
  /\ \E typed \in ChoiceInputs : answer' = typed
  /\ terminal' = terminal \o MenuLines
  /\ trace' = Append(trace, Event("input", target, options, "choice"))
  /\ pc' = "scan_menu_choice"
  /\ UNCHANGED << target, options, save_to_file, nm, result_lines, log, files,
                  exit_status >>

\* lines 82 (.strip()) to 92, and the assignment of line 105
ScanMenu ==
  /\ pc = "scan_menu_choice"
  /\ options' = scan_menu(answer)
  /\ answer' = <<>>
  /\ trace' = Append(trace, Event("scan_menu", target, scan_menu(answer), "returned"))
  /\ pc' = "save_prompt"
  /\ UNCHANGED << target, save_to_file, nm, result_lines, log, terminal, files,
                  exit_status >>

\* ------------------------------------------------------------ main, 107-113
SaveAnswers == { <<"y", "e", "s">>, <<"y">> }

\* save_option in ['yes', 'y'], save_option being the answer stripped and lowered
save_flag(typed) == lower(strip(typed)) \in SaveAnswers

\* line 108: the prompt, and input() returning
InputSave ==
  /\ pc = "save_prompt"
  /\ \E typed \in AnswerInputs : answer' = typed
  /\ terminal' =
       print(terminal, <<plain(<<"\nDo you want to save the results to a file? (yes/no): ">>)>>)
  /\ trace' = Append(trace, Event("input", target, options, "save"))
  /\ pc' = "save_answer"
  /\ UNCHANGED << target, options, save_to_file, nm, result_lines, log, files,
                  exit_status >>

\* lines 108 (.strip().lower()) to 113.  save_option is not read after line
\* 109 and is not kept.
AnnounceScan ==
  /\ pc = "save_answer"
  /\ save_to_file' = save_flag(answer)
  /\ answer' = <<>>
  /\ log' = Append(log, logging("INFO", <<"Starting scan on ">> \o target))
  /\ terminal' =
       print(terminal,
             <<colored(<<"\nStarting scan on ">> \o target \o <<" at ", Now>>, "cyan")>>)
  /\ pc' = "run_nmap_scan"
  /\ UNCHANGED << target, options, nm, result_lines, files, trace, exit_status >>

\* ------------------------------------ main, 115-116, run_nmap_scan, 21-38
StartingLine(t, o) ==
  <<colored(<<"\nStarting Nmap scan on ">> \o t \o <<" with options: ", o>>, "cyan")>>

\* run_nmap_scan logging success before it knows how nm.scan() ended.
ScanLog_AlwaysSuccess(outcome, t) == logging("INFO", <<"Scan successful on ">> \o t)

\* The log record run_nmap_scan writes once nm.scan() ended with `outcome`.
ScanLog(outcome, t) ==
  CASE outcome = "ok" -> logging("INFO", <<"Scan successful on ">> \o t)
    [] outcome = "PortScannerError" -> logging("ERROR", <<"Nmap error: ", "<e>">>)
    [] OTHER -> logging("ERROR", <<"Unexpected error: ", "<e>">>)

\* The lines run_nmap_scan prints after nm.scan() ended with `outcome`.
ScanFailureLines(outcome) ==
  CASE outcome = "ok" -> <<>>
    [] outcome = "PortScannerError" ->
         << <<colored(<<"Nmap scan failed: ", "<e>">>, "red")>> >>
    [] OTHER -> << <<colored(<<"Unexpected error: ", "<e>">>, "red")>> >>

\* What run_nmap_scan returns once nm.scan() ended with `outcome`.
ScanReturn(outcome, result) ==
  IF outcome = "ok" THEN PortScanner(result) ELSE None

\* run_nmap_scan calling nm.scan() a second time after a failure.
ScanAttempts_Retrying(t, o, outcome) ==
  IF outcome = "ok"
    THEN << Event("nm.scan", t, o, outcome) >>
    ELSE << Event("nm.scan", t, o, outcome), Event("nm.scan", t, o, outcome) >>

\* The engine invocations run_nmap_scan makes (line 27): one, whatever the
\* outcome.
ScanAttempts(t, o, outcome) == << Event("nm.scan", t, o, outcome) >>

RunNmapScan ==
  /\ pc = "run_nmap_scan"
  /\ \E c \in ConstructOutcomes :
       IF c # "ok"
         THEN \* line 23 is outside the try: the error leaves run_nmap_scan and main
              /\ trace' = trace \o << Event("PortScanner", target, options, c),
                                      Event("run_nmap_scan", target, options, "raise") >>
              /\ pc' = "raised"
              /\ UNCHANGED << nm, log, terminal >>
         ELSE \E outcome \in ScanOutcomes :
                \E result \in IF outcome = "ok" THEN ScanResults ELSE { << >> } :
                  /\ nm' = ScanReturn(outcome, result)
                  /\ log' = Append(log, ScanLog(outcome, target))
                  /\ terminal' = print(terminal, StartingLine(target, options))
                                   \o ScanFailureLines(outcome)
                  /\ trace' = trace \o
                       << Event("PortScanner", target, options, "ok") >>
                         \o ScanAttempts(target, options, outcome)
                         \o << Event("run_nmap_scan", target, options,
                                     ScanReturn(outcome, result).kind) >>
                  /\ pc' = "display"
  /\ UNCHANGED << answer, target, options, save_to_file, result_lines, files,
                  exit_status >>

\* --------------------------------- main, 118-119, display_scan_results, 40-71
RECURSIVE Concat(_)
Concat(seqs) == IF seqs = <<>> THEN <<>> ELSE Head(seqs) \o Concat(Tail(seqs))

\* One loop step: the line appended to result_lines and the line printed.
Item(saved, printed) == [saved |-> saved, printed |-> printed]

HostItem(scanner, host) ==
  LET result == <<"\nHost: ", host, " (", hostname(host), ")">>
  IN  Item(result, <<colored(result, "yellow")>>)

StateItem(scanner, host) ==
  LET st == <<"State: ", state(host)>>
  IN  Item(st, <<colored(st, "green")>>)

ProtocolItem(protocol) ==
  LET protocol_info == <<"Protocol: ", protocol>>
  IN  Item(protocol_info, <<colored(protocol_info, "blue")>>)

PortItem(port, st) ==
  Item(<<"Port: ", ToString(port), "\tState: ", st>>,
       << plain(<<"Port: ">>), colored(<<ToString(port)>>, "magenta"),
          plain(<<"\tState: ">>), colored(<<st>>, "green") >>)

\* lines 56-65 for one protocol of one host
ProtocolItems(hostResult, protocol) ==
  LET port_info == items(hostResult[protocol])
  IN  <<ProtocolItem(protocol)>>
        \o [i \in 1..Len(port_info) |-> PortItem(port_info[i], port_state(port_info[i]))]

\* The State line appended after the host's protocols instead of before.
HostItems_StateLast(scanner, host) ==
  LET protocols == all_protocols(scanner.scan[host])
  IN  << HostItem(scanner, host) >>
        \o Concat([i \in 1..Len(protocols) |->
                     ProtocolItems(scanner.scan[host], protocols[i])])
        \o << StateItem(scanner, host) >>

\* lines 47-65 for one host
HostItems(scanner, host) ==
  LET protocols == all_protocols(scanner.scan[host])
  IN  << HostItem(scanner, host), StateItem(scanner, host) >>
        \o Concat([i \in 1..Len(protocols) |->
                     ProtocolItems(scanner.scan[host], protocols[i])])

\* lines 47-65
DisplayItems(scanner) ==
  LET hosts == all_hosts(scanner)
  IN  Concat([i \in 1..Len(hosts) |-> HostItems(scanner, hosts[i])])

\* sep.join(lines), lines and the result being sequences of string parts
RECURSIVE join(_, _)
join(sep, lines) ==
  IF lines = <<>> THEN <<>>
  ELSE IF Len(lines) = 1 THEN lines[1]
  ELSE lines[1] \o <<sep>> \o join(sep, Tail(lines))

ResultsFileName == <<"nmap_scan_results_", Now, ".txt">>

\* display_scan_results saving whatever the flag says.
WritesFile_IgnoresFlag(scanner, save) == scanner.kind # "None"

\* lines 42-43 and 67: whether display_scan_results writes the results file
WritesFile(scanner, save) == scanner.kind # "None" /\ save

\* result_lines after the loop, and the lines the loop printed
ResultLines(scanner) ==
  LET its == DisplayItems(scanner) IN [i \in 1..Len(its) |-> its[i].saved]

PrintedLines(scanner) ==
  LET its == DisplayItems(scanner) IN [i \in 1..Len(its) |-> its[i].printed]

SavedLine == <<colored(<<"\nResults saved to ">> \o ResultsFileName, "cyan")>>

DisplayScanResults ==
  /\ pc = "display"
  /\ IF nm.kind = "None"
       THEN UNCHANGED << result_lines, terminal, files >>
       ELSE /\ result_lines' = ResultLines(nm)
            /\ terminal' = terminal \o PrintedLines(nm)
                             \o IF WritesFile(nm, save_to_file) THEN <<SavedLine>> ELSE <<>>
            /\ files' =
                 IF WritesFile(nm, save_to_file)
                   THEN Append(files, [name |-> ResultsFileName,
                                       content |-> join("\n", ResultLines(nm))])
                   ELSE files
  /\ trace' = Append(trace, Event("display_scan_results", target, options, nm.kind))
  /\ pc' = "returned"
  /\ UNCHANGED << answer, target, options, save_to_file, nm, log, exit_status >>

\* ------------------------------------------------------------ lines 121-122
\* The interpreter's exit status: 0 when main() returned, 1 when an exception
\* left it.
ExitStatus(at) == IF at = "returned" THEN 0 ELSE 1

Exit ==
  /\ pc \in {"returned", "raised"}
  /\ exit_status' = ExitStatus(pc)
  /\ pc' = "exited"
  /\ UNCHANGED << answer, target, options, save_to_file, nm, result_lines, log,
                  terminal, files, trace >>

Next ==
  \/ InputTarget
  \/ ValidateTarget
  \/ InputChoice
  \/ ScanMenu
  \/ InputSave
  \/ AnnounceScan
  \/ RunNmapScan
  \/ DisplayScanResults
  \/ Exit

Spec == Init /\ [][Next]_vars

\* ================================================================ properties
\* Positions of the call history where `op` was called.
Calls(op) == { i \in DOMAIN trace : trace[i].op = op }

\* `op` was called and ended with `result`.
Occurs(op, result) == \E i \in Calls(op) : trace[i].result = result

Finished == pc = "exited"

\* C1: the run ends with exit status 0 when main() runs to completion, and
\* with a nonzero exit status when validate_target returned False.
C1_InvalidTargetExitsNonzero ==
  Finished =>
    /\ Occurs("display_scan_results", "PortScanner") => exit_status = 0
    /\ Occurs("validate_target", "False") => exit_status # 0

\* C2: once validate_target has returned False the failure has been reported
\* (one ERROR record, one red line naming the target) and nothing else
\* happens: no menu, no save prompt, no scanner, no scan, no display, no file,
\* and main() has returned.
C2_InvalidTargetStops ==
  Occurs("validate_target", "False") =>
    /\ pc \in {"returned", "exited"}
    /\ Len(log) = 1 /\ log[1].level = "ERROR"
    /\ log[1].message = <<"Invalid target: ">> \o target
    /\ Len(terminal) = 3
    /\ terminal[3][1].color = "red"
    /\ terminal[3][1].text[1] = "Invalid target: "
    /\ \A i \in DOMAIN trace :
         /\ trace[i].op \in {"input", "gethostbyname", "validate_target"}
         /\ trace[i].op = "input" => trace[i].result = "target"
    /\ options = "" /\ ~save_to_file /\ nm = None
    /\ result_lines = << >>
    /\ files = << >>

C2_Witness == Finished /\ Occurs("validate_target", "False") /\ target = <<"a">>

\* An engine failure: the scanner could not be constructed, or nm.scan raised.
EngineFailed ==
  \/ \E i \in Calls("PortScanner") : trace[i].result # "ok"
  \/ \E i \in Calls("nm.scan") : trace[i].result # "ok"

\* C3: whatever way the engine fails inside run_nmap_scan, run_nmap_scan
\* returns None after logging the error, and no exception leaves
\* run_nmap_scan or main().
C3_EngineFailureNeverCrashes ==
  EngineFailed =>
    /\ Occurs("run_nmap_scan", "None")
    /\ ~Occurs("run_nmap_scan", "raise")
    /\ \E i \in DOMAIN log : log[i].level = "ERROR"
    /\ pc # "raised"
    /\ Finished => exit_status = 0

\* `typed` is `word` with blanks before and after it and nothing else.
Padded(typed, word) ==
  \E before \in 0..Len(typed) :
    /\ before + Len(word) <= Len(typed)
    /\ \A i \in 1..Len(typed) :
         IF i > before /\ i <= before + Len(word)
           THEN typed[i] = word[i - before]
           ELSE typed[i] = " "

\* The five option strings, in menu order.
OptionOrder == << "-sP", "-sV", "-O", "-sS", "-sV -sC" >>
Digits == << "1", "2", "3", "4", "5" >>

\* The option the menu is said to give for what was typed.
MenuMaps(typed, option) ==
  /\ \E k \in 1..5 : option = OptionOrder[k]
  /\ \A k \in 1..5 : Padded(typed, <<Digits[k]>>) => option = OptionOrder[k]
  /\ (\A k \in 1..5 : ~Padded(typed, <<Digits[k]>>)) => option = "-sV -sC"

\* C4: whatever is typed at the menu, scan_menu returns exactly one of the five
\* option strings: '1'..'5', blanks around them ignored, give them in order,
\* anything else gives '-sV -sC'; and the scan is invoked with that string.
C4_OneOptionString ==
  /\ [][pc = "scan_menu_choice" => MenuMaps(answer, options')]_vars
  /\ [](\A i \in Calls("nm.scan") :
          /\ trace[i].options = options
          /\ \E j \in Calls("scan_menu") : j < i /\ trace[j].options = trace[i].options
          /\ \A j \in Calls("scan_menu") : trace[j].options = trace[i].options)

C4_Witness == Occurs("nm.scan", "ok") /\ options = "-sS"

\* The typed answer is yes or y, in any case, blanks around it ignored.
SaysYes(typed) ==
  \E w \in { <<a>> : a \in {"y", "Y"} }
             \cup { <<a, b, c>> : a \in {"y", "Y"}, b \in {"e", "E"}, c \in {"s", "S"} } :
    Padded(typed, w)

\* The lines to be joined with a newline between consecutive lines.
RECURSIVE NewlineJoined(_)
NewlineJoined(lines) ==
  IF lines = << >> THEN << >>
  ELSE LET n == Len(lines)
       IN  IF n = 1 THEN lines[1]
           ELSE NewlineJoined(SubSeq(lines, 1, n - 1)) \o <<"\n">> \o lines[n]

\* The text of a terminal line, colours dropped.
PlainText(printed) == Concat([i \in 1..Len(printed) |-> printed[i].text])

IsScanStartLine(printed) == printed[1].text[1] = "\nStarting Nmap scan on "
IsFailureLine(printed) ==
  printed[1].text[1] \in {"Nmap scan failed: ", "Unexpected error: "}
IsSavedLine(printed) == printed[1].text[1] = "\nResults saved to "

\* The result lines on the terminal: what follows the line run_nmap_scan
\* prints, without a closing "Results saved" line.
Displayed ==
  LET from == CHOOSE i \in DOMAIN terminal : IsScanStartLine(terminal[i])
      shown == SubSeq(terminal, from + 1, Len(terminal))
      kept == SelectSeq(shown, LAMBDA l : ~IsSavedLine(l) /\ ~IsFailureLine(l))
  IN  [i \in 1..Len(kept) |-> PlainText(kept[i])]

\* C5: a results file is written if and only if the save flag is set (the
\* answer was yes or y, case and surrounding blanks ignored) and run_nmap_scan
\* returned a scanner; at most one file; its content is the displayed result
\* lines in order joined by newlines, empty when no host was reported; after a
\* failed scan nothing is displayed and nothing is written.
C5_FileState ==
  /\ Len(files) <= 1
  /\ files # << >> <=>
       /\ pc \in {"returned", "exited"}
       /\ save_to_file
       /\ Occurs("run_nmap_scan", "PortScanner")
  /\ files # << >> =>
       /\ files[1].content = NewlineJoined(Displayed)
       /\ Displayed = result_lines
       /\ DOMAIN nm.scan = {} => files[1].content = << >>
  /\ Occurs("run_nmap_scan", "None") =>
       /\ files = << >>
       /\ result_lines = << >>
       /\ Displayed = << >>

C5_ResultExport ==
  /\ [][pc = "save_answer" => (save_to_file' <=> SaysYes(answer))]_vars
  /\ []C5_FileState

C5_Witness ==
  Finished /\ files # << >> /\ Len(files[1].content) > 20 /\ Len(result_lines) > 5

\* In a step that runs validate_target: how the resolution ended and what
\* validate_target did about it.
Resolution == trace'[Len(trace') - 1].result
VerdictGiven == trace'[Len(trace')].result

ValidationFrame ==
  /\ files' = files
  /\ UNCHANGED << options, save_to_file, nm, result_lines, exit_status >>

\* C6 as stated: validate_target leaves the log, the terminal and all other
\* state unchanged whether it accepts or rejects, and the verdict is a
\* failure exactly when resolution fails.
C6_ValidationHasNoEffects ==
  [][pc = "validate" =>
       /\ log' = log
       /\ terminal' = terminal
       /\ ValidationFrame
       /\ VerdictGiven # "True" <=> Resolution # "resolved"]_vars

\* C6 amended: validate_target writes nothing when it accepts; it rejects
\* exactly when resolution fails with socket.error, and then appends one ERROR
\* record and one red line, both naming the target, and nothing else; any
\* other resolution error leaves validate_target as an exception with nothing
\* written.  No other state changes in any case.
C6_ValidationReportsRejection ==
  [][pc = "validate" =>
       /\ ValidationFrame
       /\ VerdictGiven = "True" <=> Resolution = "resolved"
       /\ VerdictGiven = "False" <=> Resolution = "socket.error"
       /\ VerdictGiven = "raise" <=> Resolution \notin {"resolved", "socket.error"}
       /\ IF VerdictGiven = "False"
            THEN /\ Len(log') = Len(log) + 1
                 /\ SubSeq(log', 1, Len(log)) = log
                 /\ log'[Len(log')].level = "ERROR"
                 /\ log'[Len(log')].message = <<"Invalid target: ">> \o strip(answer)
                 /\ Len(terminal') = Len(terminal) + 1
                 /\ SubSeq(terminal', 1, Len(terminal)) = terminal
                 /\ terminal'[Len(terminal')][1].color = "red"
                 /\ PlainText(terminal'[Len(terminal')]) =
                      <<"Invalid target: ">> \o strip(answer)
                        \o <<". Please enter a valid IP or domain.">>
            ELSE log' = log /\ terminal' = terminal]_vars

C6_Witness ==
  /\ Occurs("validate_target", "False")
  /\ Len(log) = 1
  /\ target = <<"a", ".", ".", "b">>

IsHostLine(l)     == l[1] = "\nHost: "
IsStateLine(l)    == l[1] = "State: "
IsProtocolLine(l) == l[1] = "Protocol: "
IsPortLine(l)     == l[1] = "Port: "

\* The host whose record position i of result_lines lies in: the host of the
\* last Host line at or before i ("" before the first Host line).
HostAt(i) ==
  LET before == { j \in 1..i : IsHostLine(result_lines[j]) }
  IN  IF before = {} THEN ""
      ELSE result_lines[CHOOSE j \in before : \A k \in before : k <= j][2]

\* The number of Port lines that follow position i without a gap.
PortRun(i) ==
  Cardinality({ k \in 1..(Len(result_lines) - i) :
                  \A m \in 1..k : IsPortLine(result_lines[i + m]) })

ScannedHosts == DOMAIN nm.scan
ScannedProtocols == { hp \in Hosts \X Protocols :
                        hp[1] \in ScannedHosts /\ hp[2] \in DOMAIN nm.scan[hp[1]] }
ScannedPorts == { hpq \in Hosts \X Protocols \X PortNumbers :
                    /\ <<hpq[1], hpq[2]>> \in ScannedProtocols
                    /\ hpq[3] \in nm.scan[hpq[1]][hpq[2]] }

\* C8: for every scanner result, every host of all_hosts() gives exactly one
\* Host line immediately followed by one State line; every protocol of the
\* host gives, inside the host's record, exactly one Protocol line immediately
\* followed by one Port line per port of that protocol; nothing is duplicated
\* or left out, so there are 2*hosts + protocols + ports lines, and the lines
\* of different hosts are not interleaved.
C8_DisplayShape ==
  Occurs("display_scan_results", "PortScanner") =>
    LET L == result_lines IN
    /\ Len(L) = 2 * Cardinality(ScannedHosts) + Cardinality(ScannedProtocols)
                  + Cardinality(ScannedPorts)
    /\ \A i \in DOMAIN L :
         IsHostLine(L[i]) \/ IsStateLine(L[i]) \/ IsProtocolLine(L[i]) \/ IsPortLine(L[i])
    /\ \A h \in ScannedHosts :
         Cardinality({ i \in DOMAIN L : IsHostLine(L[i]) /\ L[i][2] = h }) = 1
    /\ \A i \in DOMAIN L :
         /\ IsHostLine(L[i]) =>
              /\ L[i][2] \in ScannedHosts
              /\ i < Len(L) /\ IsStateLine(L[i + 1])
         /\ IsStateLine(L[i]) => i > 1 /\ IsHostLine(L[i - 1])
         /\ IsProtocolLine(L[i]) =>
              /\ <<HostAt(i), L[i][2]>> \in ScannedProtocols
              /\ PortRun(i) = Cardinality(nm.scan[HostAt(i)][L[i][2]])
              /\ { L[i + m][2] : m \in 1..PortRun(i) } =
                   { ToString(q) : q \in nm.scan[HostAt(i)][L[i][2]] }
         /\ IsPortLine(L[i]) => i > 2 /\ ~IsStateLine(L[i - 1]) /\ ~IsHostLine(L[i - 1])
    /\ \A hp \in ScannedProtocols :
         Cardinality({ i \in DOMAIN L : /\ IsProtocolLine(L[i])
                                        /\ HostAt(i) = hp[1]
                                        /\ L[i][2] = hp[2] }) = 1

C8_Witness ==
  /\ Finished
  /\ Occurs("display_scan_results", "PortScanner")
  /\ Cardinality(ScannedHosts) = 2
  /\ Cardinality(ScannedProtocols) = 4
  /\ Cardinality(ScannedPorts) >= 5

\* The steps of main() in the order of the claim.
ScanGuarded ==
  \A s \in Calls("nm.scan") :
    /\ \E v \in Calls("validate_target") :
         v < s /\ trace[v].result = "True" /\ trace[v].target = trace[s].target
    /\ \E m \in Calls("scan_menu") : m < s
    /\ \E a \in Calls("input") : a < s /\ trace[a].result = "save"

DisplayAfterScan ==
  \A d \in Calls("display_scan_results") :
    \E r \in Calls("run_nmap_scan") : r < d /\ trace[r].result # "raise"

\* C9 as stated: in every run the scan is invoked at most once, only after
\* validate_target returned True for the same target and after the option and
\* the save answer were collected, and display_scan_results is called exactly
\* once, only after run_nmap_scan has returned.
C9_FixedOrder ==
  /\ Cardinality(Calls("nm.scan")) <= 1
  /\ ScanGuarded
  /\ DisplayAfterScan
  /\ Finished => Cardinality(Calls("display_scan_results")) = 1

\* C9 amended: display_scan_results is called at most once, only after
\* run_nmap_scan has returned, and exactly once in every run in which
\* run_nmap_scan returns; a run whose target is rejected, or which an
\* exception ends, never calls it.  The rest as stated.
C9_GuardedOrder ==
  /\ Cardinality(Calls("nm.scan")) <= 1
  /\ ScanGuarded
  /\ DisplayAfterScan
  /\ Cardinality(Calls("display_scan_results")) <= 1
  /\ Finished =>
       ( Cardinality(Calls("display_scan_results")) = 1
           <=> \E r \in Calls("run_nmap_scan") : trace[r].result # "raise" )
  /\ Finished /\ (Occurs("validate_target", "False") \/ exit_status # 0) =>
       Calls("display_scan_results") = {}

C9_Witness ==
  Finished /\ Occurs("nm.scan", "ok") /\ Occurs("display_scan_results", "PortScanner")

SuccessRecords ==
  { i \in DOMAIN log : log[i].level = "INFO" /\ log[i].message[1] = "Scan successful on " }
ErrorRecords == { i \in DOMAIN log : log[i].level = "ERROR" }

\* C10: a 'Scan successful' record is logged if and only if run_nmap_scan
\* returns a scanner; whenever the scan raises, PortScannerError or anything
\* else alike, exactly one error record is logged, no success record, and
\* None is returned.
C10_ScanLogging ==
  /\ SuccessRecords # {} <=> Occurs("run_nmap_scan", "PortScanner")
  /\ Cardinality(SuccessRecords) <= 1
  /\ \A s \in Calls("nm.scan") :
       trace[s].result # "ok" =>
         /\ Cardinality(ErrorRecords) = 1
         /\ SuccessRecords = {}
         /\ Occurs("run_nmap_scan", "None")
         /\ ~Occurs("run_nmap_scan", "PortScanner")
         /\ nm = None

C10_Witness == Finished /\ Occurs("nm.scan", "Exception") /\ Cardinality(ErrorRecords) = 1

====
